---------------------------- MODULE Spec2Model ----------------------------
(***************************************************************************)
(* Customer loyalty system: Config (rule store), VisitsInWindowStrategy /  *)
(* LoyaltyEngine (tier classifier), VisitRepository / CsvVisitRepository   *)
(* (visit aggregation), ReportService (ranking) and the console program    *)
(* main.py (CSV import, rule editor and wizard, queries).                  *)
(*                                                                         *)
(* Values.  A date is <<year, month, day>>, a datetime is                  *)
(* <<year, month, day, hour, minute, second, microsecond>>; Python orders  *)
(* both lexicographically.  A str on which the code computes (lower(),     *)
(* comparison, strip() == "") is the sequence of its code points.  Python  *)
(* lists are objects: `heap` maps a list object to its contents and the    *)
(* program variables hold references, so that two names of one list are    *)
(* told apart from two equal lists.                                        *)
(***************************************************************************)
EXTENDS Integers, Sequences, FiniteSets, TLC

VARIABLES
    heap,            \* list objects holding LoyaltyRule values: slot -> contents
    cfg,             \* Config._instance.rules (a reference into heap)
    got,             \* a list a caller obtained from Config.get_rules (0: none)
    work,            \* configure_rules' local `work` (0: editor closed)
    eng,             \* the VisitsInWindowStrategy / LoyaltyEngine in use
    pc,              \* position of the console program
    wiz,             \* rule_wizard's locals
    repo,            \* main's `repo` (CsvVisitRepository or None)
    customers_repo,  \* main's `customers_repo` (InMemoryCustomerRepository or None)
    last             \* what the last operation was given and what it returned

vars == <<heap, cfg, got, work, eng, pc, wiz, repo, customers_repo, last>>

---------------------------------------------------------------------------
(* Bounds of the model                                                     *)

\* longest rule list a caller passes to set_rules or builds by mutation,
\* and the longest list the rule editor is driven to
MaxRules == 2

\* list objects the model can hold at once: one each for cfg, got, work and
\* eng.rules_desc, and the one being allocated
NumSlots == 5

---------------------------------------------------------------------------
(* Python built-ins the code relies on                                     *)

None == [none |-> TRUE]

\* tuple / str comparison: a < b
RECURSIVE LexLess(_, _)
LexLess(a, b) ==
    IF b = <<>> THEN FALSE
    ELSE IF a = <<>> THEN TRUE
    ELSE IF Head(a) < Head(b) THEN TRUE
    ELSE IF Head(a) > Head(b) THEN FALSE
    ELSE LexLess(Tail(a), Tail(b))

LexLE(a, b) == a = b \/ LexLess(a, b)

\* str.lower() on code points: 'A'..'Z' -> 'a'..'z'
lower(s) == [i \in 1..Len(s) |-> IF s[i] >= 65 /\ s[i] <= 90 THEN s[i] + 32 ELSE s[i]]

\* sorted(s, key=...) / list.sort(key=...): the stable sort.  Before(x, y) is
\* "x's key orders strictly before y's"; elements with equal keys keep their
\* relative order.
SortStable(s, Before(_, _)) ==
    LET n == Len(s)
        pos(i) == 1 + Cardinality({j \in 1..n :
                        \/ Before(s[j], s[i])
                        \/ (~Before(s[i], s[j]) /\ j < i)})
    IN  [p \in 1..n |-> s[CHOOSE i \in 1..n : pos(i) = p]]

\* s.pop(i - 1) leaves this behind
RemoveAt(s, i) == [k \in 1..(Len(s) - 1) |-> IF k < i THEN s[k] ELSE s[k + 1]]

RECURSIVE SeqsUpTo(_, _)
SeqsUpTo(S, n) ==
    IF n = 0 THEN {<<>>}
    ELSE LET shorter == SeqsUpTo(S, n - 1)
         IN  shorter \cup {Append(s, x) : s \in {t \in shorter : Len(t) = n - 1}, x \in S}

---------------------------------------------------------------------------
(* models.py                                                               *)

LoyaltyTier(name, priority) == [name |-> name, priority |-> priority]

LoyaltyRule(min_visits, window_months, resulting_tier) ==
    [min_visits |-> min_visits, window_months |-> window_months,
     resulting_tier |-> resulting_tier]

\* a faulty applies, with > for >=, that the properties must tell apart
applies_Strict(r, visits_in_window) == visits_in_window > r.min_visits

\* LoyaltyRule.applies
applies(r, visits_in_window) == visits_in_window >= r.min_visits

\* Customer: email and phone are carried by the code and read by nothing but
\* the CSV export
Customer(id, name) == [id |-> id, name |-> name]

Reservation(id, customer_id, dt, party_size) ==
    [id |-> id, customer_id |-> customer_id, dt |-> dt, party_size |-> party_size]

\* Reservation.parse_iso.  The text of a datetime cell is modelled by the
\* format it is written in: "T" ('YYYY-MM-DDTHH:MM'), "space"
\* ('YYYY-MM-DD HH:MM'), "date" ('YYYY-MM-DD'), anything else matches no
\* format of the loop and raises ValueError.
ValueError == [raised |-> "ValueError"]

FileNotFoundError == [raised |-> "FileNotFoundError"]

parse_iso(dt_str) ==
    IF dt_str.fmt \in {"T", "space"}
    THEN dt_str.ymd \o dt_str.hm \o <<0, 0>>
    ELSE IF dt_str.fmt = "date"
    THEN dt_str.ymd \o <<0, 0, 0, 0>>
    ELSE ValueError

---------------------------------------------------------------------------
(* datetime                                                                *)

time_min == <<0, 0, 0, 0>>

time_max == <<23, 59, 59, 999999>>

combine(d, t) == d \o t

date_of(dt) == SubSeq(dt, 1, 3)

\* the list literal [31, 29 if ... else 28, 31, ...][m - 1] of months_ago
month_days(y, m) ==
    <<31, IF y % 4 = 0 /\ (y % 100 # 0 \/ y % 400 = 0) THEN 29 ELSE 28,
      31, 30, 31, 30, 31, 31, 30, 31, 30, 31>>[m]

Min(a, b) == IF a <= b THEN a ELSE b

---------------------------------------------------------------------------
(* strategies.py: months_ago                                               *)

\* the loop `while m <= 0: m += 12; y -= 1`
RECURSIVE months_ago_borrow(_, _)
months_ago_borrow(y, m) ==
    IF m <= 0 THEN months_ago_borrow(y - 1, m + 12) ELSE <<y, m>>

\* a faulty months_ago that keeps the day, and one with 28 days in every
\* February
months_ago_NoClamp(as_of, months) ==
    LET ym == months_ago_borrow(as_of[1], as_of[2] - months)
    IN  <<ym[1], ym[2], as_of[3]>>

months_ago_NoLeap(as_of, months) ==
    LET ym == months_ago_borrow(as_of[1], as_of[2] - months)
    IN  <<ym[1], ym[2], Min(as_of[3], month_days(2001, ym[2]))>>

months_ago(as_of, months) ==
    LET ym == months_ago_borrow(as_of[1], as_of[2] - months)
    IN  <<ym[1], ym[2], Min(as_of[3], month_days(ym[1], ym[2]))>>

---------------------------------------------------------------------------
(* repositories.py                                                         *)

\* a faulty count_visits that ignores unique_per_day, and one whose range
\* leaves out its end
count_visits_Raw(reservations, customer_id, start_dt, end_dt, unique_per_day) ==
    Len(SelectSeq(reservations,
            LAMBDA r : /\ r.customer_id = customer_id
                       /\ LexLE(start_dt, r.dt)
                       /\ LexLE(r.dt, end_dt)))

count_visits_HalfOpen(reservations, customer_id, start_dt, end_dt, unique_per_day) ==
    LET res == SelectSeq(reservations,
                   LAMBDA r : /\ r.customer_id = customer_id
                              /\ LexLE(start_dt, r.dt)
                              /\ LexLess(r.dt, end_dt))
        days == {date_of(res[i].dt) : i \in 1..Len(res)}
    IN  IF unique_per_day THEN Cardinality(days) ELSE Len(res)

\* VisitRepository.count_visits over the list get_reservations() returns
count_visits(reservations, customer_id, start_dt, end_dt, unique_per_day) ==
    LET res == SelectSeq(reservations,
                   LAMBDA r : /\ r.customer_id = customer_id
                              /\ LexLE(start_dt, r.dt)
                              /\ LexLE(r.dt, end_dt))
        days == {date_of(res[i].dt) : i \in 1..Len(res)}
    IN  IF unique_per_day THEN Cardinality(days) ELSE Len(res)

\* visits_by_month's local add_months; its list literal is that of months_ago
add_months(d, m) ==
    LET y  == d[1] + ((d[2] - 1 + m) \div 12)
        m2 == ((d[2] - 1 + m) % 12) + 1
    IN  <<y, m2, Min(d[3], month_days(y, m2))>>

\* the loop `for _ in range(months)` of visits_by_month from its k-th round
\* on, cur being the month of that round: the items of `out` it adds.  The
\* months of the rounds are distinct, so no item replaces an earlier one.
RECURSIVE month_items(_, _, _, _)
month_items(counts, cur, k, months) ==
    IF k > months THEN <<>>
    ELSE <<(<<(<<cur[1], cur[2]>>), counts[<<cur[1], cur[2]>>]>>)>>
         \o month_items(counts, add_months(cur, 1), k + 1, months)

\* a faulty visits_by_month whose range starts `months` months back, and one
\* that counts a day once
visits_by_month_OneMore(reservations, customer_id, months, as_of) ==
    LET start_month == add_months(<<as_of[1], as_of[2], 1>>, -months)
        end_dt      == combine(as_of, <<23, 59, 59, 0>>)
        start_dt    == combine(start_month, time_min)
        counts == [key \in {<<r[1], r[2]>> : r \in {add_months(start_month, j) :
                                                      j \in 0..months}} |->
                     Cardinality({i \in 1..Len(reservations) :
                         /\ reservations[i].customer_id = customer_id
                         /\ LexLE(start_dt, reservations[i].dt)
                         /\ LexLE(reservations[i].dt, end_dt)
                         /\ <<reservations[i].dt[1], reservations[i].dt[2]>> = key})]
    IN  month_items(counts, start_month, 1, months)

visits_by_month_PerDay(reservations, customer_id, months, as_of) ==
    LET start_month == add_months(<<as_of[1], as_of[2], 1>>, -(months - 1))
        end_dt      == combine(as_of, <<23, 59, 59, 0>>)
        start_dt    == combine(start_month, time_min)
        counts == [key \in {<<r[1], r[2]>> : r \in {add_months(start_month, j) :
                                                      j \in 0..months}} |->
                     Cardinality({date_of(reservations[i].dt) : i \in
                         {k \in 1..Len(reservations) :
                             /\ reservations[k].customer_id = customer_id
                             /\ LexLE(start_dt, reservations[k].dt)
                             /\ LexLE(reservations[k].dt, end_dt)
                             /\ <<reservations[k].dt[1], reservations[k].dt[2]>> = key}})]
    IN  month_items(counts, start_month, 1, months)

\* VisitRepository.visits_by_month over the list get_reservations() returns:
\* the items of the dict, in insertion order, as <<(year, month), count>>.
\* counts is the defaultdict read through counts.get(key, 0) at the months
\* of the range.
visits_by_month(reservations, customer_id, months, as_of) ==
    LET start_month == add_months(<<as_of[1], as_of[2], 1>>, -(months - 1))
        end_dt      == combine(as_of, <<23, 59, 59, 0>>)
        start_dt    == combine(start_month, time_min)
        counts == [key \in {<<r[1], r[2]>> : r \in {add_months(start_month, j) :
                                                      j \in 0..months}} |->
                     Cardinality({i \in 1..Len(reservations) :
                         /\ reservations[i].customer_id = customer_id
                         /\ LexLE(start_dt, reservations[i].dt)
                         /\ LexLE(reservations[i].dt, end_dt)
                         /\ <<reservations[i].dt[1], reservations[i].dt[2]>> = key})]
    IN  month_items(counts, start_month, 1, months)

\* CsvVisitRepository.__init__
CsvVisitRepository(path) == [path |-> path, reservations |-> <<>>, customers |-> <<>>]

HasCustomer(customers, cid) == \E i \in 1..Len(customers) : customers[i].id = cid

\* the body of load()'s loop for the rows from k on; st carries
\* seen_res_ids, self._reservations and self._customers (a dict: its keys in
\* insertion order)
RECURSIVE load_rows(_, _, _)
load_rows(rows, k, st) ==
    IF k > Len(rows) THEN st
    ELSE LET row  == rows[k]
             rid  == row.reservation_id
             dt   == parse_iso(row.datetime)
             bad  == \/ dt = ValueError
                     \/ ~row.party_size.is_int       \* int(size_str) raises
                     \/ row.party_size.value <= 0
             seen == [st EXCEPT !.seen = @ \cup {rid}]
         IN  IF rid = <<>> \/ rid \in st.seen THEN load_rows(rows, k + 1, st)
             ELSE IF bad THEN load_rows(rows, k + 1, seen)
             ELSE load_rows(rows, k + 1,
                    [seen EXCEPT
                       !.customers = IF HasCustomer(@, row.customer_id) THEN @
                                     ELSE Append(@, Customer(row.customer_id, row.name)),
                       !.reservations = Append(@, Reservation(rid, row.customer_id,
                                                              dt, row.party_size.value))])

\* CsvVisitRepository.load: the repository afterwards, or the exception raised
load(self, file) ==
    IF ~file.exists THEN FileNotFoundError
    ELSE IF ~file.header_ok THEN ValueError
    ELSE LET st == load_rows(file.rows, 1,
                       [seen |-> {}, reservations |-> self.reservations,
                        customers |-> self.customers])
         IN  [self EXCEPT !.reservations = st.reservations,
                          !.customers = st.customers]

\* CsvVisitRepository.get_reservations / get_customers: copies
get_reservations(self) == self.reservations

get_customers(self) == self.customers

\* InMemoryCustomerRepository
InMemoryCustomerRepository(customers) == [customers |-> customers]

find_all(self) == self.customers

\* The repository after get_reservations() / the customer repository after
\* find_all(): each hands out a new list (list(self._reservations),
\* list(self._customers.values())) and assigns nothing, and what the queries
\* sort or fill is that list or a local of theirs.  The faulty variants hand
\* out the stored collection, which the caller's sort then reorders.
after_get_reservations(self) == self

after_find_all_Sorted(self) ==
    [self EXCEPT !.customers =
        SortStable(@, LAMBDA a, b : LexLess(lower(a.name), lower(b.name)))]

after_find_all(self) == self

---------------------------------------------------------------------------
(* List objects                                                            *)

Slots == 1..NumSlots

\* the references the program holds, given its variables' values
RefsOf(c, g, w, e) ==
    ({c, g, w} \cup (IF e = None THEN {} ELSE {e.strategy.rules_desc})) \ {0}

\* a list object no variable refers to: where the next list is allocated
FreshSlot(refs) == CHOOSE f \in Slots : f \notin refs /\ \A t \in Slots \ refs : f <= t

\* The state with the list objects renamed in the order cfg, got, work,
\* eng.rules_desc first refer to them, and the unreferenced ones (garbage)
\* emptied: which slot holds a list is not observable by the program.
Canon(h, c, g, w, e) ==
    LET order    == <<c, g, w, IF e = None THEN 0 ELSE e.strategy.rules_desc>>
        live     == {order[i] : i \in 1..4} \ {0}
        first(x) == CHOOSE i \in 1..4 : order[i] = x /\ \A j \in 1..(i - 1) : order[j] # x
        new(x)   == IF x = 0 THEN 0
                    ELSE 1 + Cardinality({y \in live : first(y) < first(x)})
    IN  [heap |-> [sl \in Slots |->
                     IF \E x \in live : new(x) = sl
                     THEN h[CHOOSE x \in live : new(x) = sl] ELSE <<>>],
         cfg  |-> new(c),
         got  |-> new(g),
         work |-> new(w),
         eng  |-> IF e = None THEN None
                  ELSE [e EXCEPT !.strategy.rules_desc = new(@)]]

---------------------------------------------------------------------------
(* config.py                                                               *)

\* Config.__init__
DefaultRules ==
    << LoyaltyRule(4, 3, LoyaltyTier("Super VIP", 2)),
       LoyaltyRule(2, 3, LoyaltyTier("VIP", 1)) >>

\* two faulty set_rules: one that stores the list as given, one that sorts
\* it ascending
set_rules_Unsorted(rules) == rules

set_rules_Ascending(rules) ==
    SortStable(rules, LAMBDA a, b : a.min_visits < b.min_visits)

\* a faulty set_rules that sorts ascending and reverses the result
set_rules_SortThenReverse(rules) ==
    LET up == SortStable(rules, LAMBDA a, b : a.min_visits < b.min_visits)
    IN  [k \in 1..Len(up) |-> up[Len(up) + 1 - k]]

\* Config.set_rules: the contents of the new list bound to self.rules
set_rules(rules) ==
    SortStable(rules, LAMBDA a, b : a.min_visits > b.min_visits)

\* a faulty get_rules that returns self.rules itself
get_rules_SameList(h, self_rules, f) == [heap |-> h, ref |-> self_rules]

\* Config.get_rules: list(self.rules), a new list object allocated at f
get_rules(h, self_rules, f) ==
    [heap |-> [h EXCEPT ![f] = h[self_rules]], ref |-> f]

---------------------------------------------------------------------------
(* strategies.py: VisitsInWindowStrategy                                   *)

Regular == LoyaltyTier("Regular", 0)

VisitsInWindowStrategy(rules_desc, window_months, unique_per_day) ==
    [rules_desc |-> rules_desc, window_months |-> window_months,
     unique_per_day |-> unique_per_day]

\* classify, lines 142-147: the customer's visit count in the window
visits_in_window(window_months, unique_per_day, customer, as_of, reservations) ==
    LET start_date == months_ago(as_of, window_months)
        start_dt   == combine(start_date, time_min)
        end_dt     == combine(as_of, time_max)
    IN  count_visits(reservations, customer.id, start_dt, end_dt, unique_per_day)

\* two faulty loops: one that does not skip the rules of another window, one
\* that returns None when no rule applies
RECURSIVE rule_scan_AnyWindow(_, _, _, _)
rule_scan_AnyWindow(rules, k, window_months, count) ==
    IF k > Len(rules) THEN Regular
    ELSE IF applies(rules[k], count) THEN rules[k].resulting_tier
    ELSE rule_scan_AnyWindow(rules, k + 1, window_months, count)

RECURSIVE rule_scan_NoDefault(_, _, _, _)
rule_scan_NoDefault(rules, k, window_months, count) ==
    IF k > Len(rules) THEN None
    ELSE IF rules[k].window_months # window_months
    THEN rule_scan_NoDefault(rules, k + 1, window_months, count)
    ELSE IF applies(rules[k], count) THEN rules[k].resulting_tier
    ELSE rule_scan_NoDefault(rules, k + 1, window_months, count)

\* classify, lines 150-158: the loop over self.rules_desc from index k on
RECURSIVE rule_scan(_, _, _, _)
rule_scan(rules, k, window_months, count) ==
    IF k > Len(rules) THEN Regular
    ELSE IF rules[k].window_months # window_months
    THEN rule_scan(rules, k + 1, window_months, count)
    ELSE IF applies(rules[k], count) THEN rules[k].resulting_tier
    ELSE rule_scan(rules, k + 1, window_months, count)

\* VisitsInWindowStrategy.classify (LoyaltyEngine.classify delegates to it with
\* the engine's repo); rules is the contents of self.rules_desc
classify(rules, self, customer, as_of, reservations) ==
    rule_scan(rules, 1, self.window_months,
              visits_in_window(self.window_months, self.unique_per_day,
                               customer, as_of, reservations))

---------------------------------------------------------------------------
(* main.py: ensure_engine                                                  *)

\* a faulty ensure_engine that takes the rules of a newly built Config
ensure_engine_NewConfig(h, c, f) ==
    [heap |-> [h EXCEPT ![f] = DefaultRules],
     strategy |-> VisitsInWindowStrategy(f, 3, TRUE)]

\* the strategy ensure_engine builds, its rule list allocated at f
ensure_engine(h, c, f) ==
    LET rules == get_rules(h, c, f)
    IN  [heap |-> rules.heap,
         strategy |-> VisitsInWindowStrategy(rules.ref, 3, TRUE)]

---------------------------------------------------------------------------
(* main.py: console input helpers, rule_wizard, load_csv                   *)

\* A line typed at a prompt, after strip(): "back" is one of b, B, <;
\* "cancel" one of x, X; "cancel_q" one of q, Q; "enter" the empty line;
\* "int" a line int() accepts, with its value; "text" any other line.
\* n is the value of an "int" line and t the text of a "text" line.
Typed(kind, n, t) == [kind |-> kind, n |-> n, t |-> t]

\* an optional value (None or a value) is <<>> or <<value>>
Some(v) == <<v>>

Retry == [action |-> "retry", value |-> <<>>]

\* a faulty ask_int_with_back that does not compare with min_value
ask_int_with_back_NoMinimum(s, prefill, min_value, max_value) ==
    IF s.kind = "back" THEN [action |-> "back", value |-> <<>>]
    ELSE IF s.kind \in {"cancel", "cancel_q"} THEN [action |-> "cancel", value |-> <<>>]
    ELSE IF s.kind = "enter" /\ prefill # <<>> THEN [action |-> "ok", value |-> prefill]
    ELSE IF s.kind # "int" THEN Retry
    ELSE IF s.n > max_value THEN Retry
    ELSE [action |-> "ok", value |-> Some(s.n)]

\* ask_int_with_back: <<action, value>>; "retry" stands for the recursive
\* call that asks again
ask_int_with_back(s, prefill, min_value, max_value) ==
    IF s.kind = "back" THEN [action |-> "back", value |-> <<>>]
    ELSE IF s.kind \in {"cancel", "cancel_q"} THEN [action |-> "cancel", value |-> <<>>]
    ELSE IF s.kind = "enter" /\ prefill # <<>> THEN [action |-> "ok", value |-> prefill]
    ELSE IF s.kind # "int" THEN Retry            \* int(s) raises ValueError
    ELSE IF s.n < min_value THEN Retry
    ELSE IF s.n > max_value THEN Retry
    ELSE [action |-> "ok", value |-> Some(s.n)]

\* ask_text_with_back; the text of a line int() accepts is not modelled
ask_text_with_back(s, prefill) ==
    IF s.kind = "back" THEN [action |-> "back", value |-> <<>>]
    ELSE IF s.kind \in {"cancel", "cancel_q"} THEN [action |-> "cancel", value |-> <<>>]
    ELSE IF s.kind = "enter" /\ prefill # <<>> THEN [action |-> "ok", value |-> prefill]
    ELSE IF s.kind = "enter" THEN [action |-> "ok", value |-> Some("")]
    ELSE [action |-> "ok", value |-> Some(s.t)]

\* x or y, for an optional text and an optional integer x
OrText(x, y) == IF x = <<>> \/ x = Some("") THEN Some(y) ELSE x

OrInt(x, y) == IF x = <<>> \/ x = Some(0) THEN Some(y) ELSE x

\* rule_wizard's locals on entry (lines 185-190); `editing` is the index in
\* work of the rule being edited, 0 for a new rule
wizard_start(existing, editing) ==
    [step      |-> 0,
     w         |-> IF existing = <<>> THEN <<>> ELSE Some(existing[1].window_months),
     mv        |-> IF existing = <<>> THEN <<>> ELSE Some(existing[1].min_visits),
     tier_name |-> IF existing = <<>> THEN <<>> ELSE Some(existing[1].resulting_tier.name),
     priority  |-> IF existing = <<>> THEN <<>>
                   ELSE Some(existing[1].resulting_tier.priority),
     editing   |-> editing]

\* One prompt of rule_wizard answered by the line s: the locals afterwards
\* and, when the wizard returns, what it returns (<<>> for None).  step 4 is
\* the prompt of the summary, which the code reaches inside step 3.
wizard_step(z, s) ==
    LET ask == IF z.step = 0 THEN ask_int_with_back(s, z.w, 1, 60)
               ELSE IF z.step = 1 THEN ask_int_with_back(s, z.mv, 1, 1000)
               ELSE IF z.step = 2 THEN ask_text_with_back(s, OrText(z.tier_name, "VIP"))
               ELSE ask_int_with_back(s, OrInt(z.priority, 1), 1, 99)
        goes(zz)   == [done |-> FALSE, result |-> <<>>, wiz |-> zz]
        returns(r) == [done |-> TRUE, result |-> r, wiz |-> z]
    IN  IF z.step = 4
        THEN IF s.kind = "cancel" THEN returns(<<>>)
             ELSE IF s.kind = "back" THEN goes([z EXCEPT !.step = 2])
             ELSE IF s.kind = "int" /\ s.n \in 1..4
             THEN goes([z EXCEPT !.step = s.n - 1])
             ELSE returns(Some(LoyaltyRule(z.mv[1], z.w[1],
                                           LoyaltyTier(z.tier_name[1], z.priority[1]))))
        ELSE IF ask.action = "retry" THEN goes(z)
        ELSE IF ask.action = "cancel" THEN returns(<<>>)
        ELSE IF ask.action = "back"
        THEN goes([z EXCEPT !.step = IF z.step = 0 THEN 0 ELSE z.step - 1])
        ELSE IF z.step = 0 THEN goes([z EXCEPT !.w = ask.value, !.step = 1])
        ELSE IF z.step = 1 THEN goes([z EXCEPT !.mv = ask.value, !.step = 2])
        ELSE IF z.step = 2
        THEN goes([z EXCEPT !.tier_name = OrText(ask.value, "VIP"), !.step = 3])
        ELSE goes([z EXCEPT !.priority = ask.value, !.step = 4])

\* the editor's work.sort(key=lambda r: (r.resulting_tier.priority,
\* r.min_visits), reverse=True)
editor_sort(rules) ==
    SortStable(rules, LAMBDA a, b :
        LexLess(<<b.resulting_tier.priority, b.min_visits>>,
                <<a.resulting_tier.priority, a.min_visits>>))

\* a faulty editor that works on the list Config holds
work_list_OfConfig(h, c, f) == [heap |-> h, ref |-> c]

\* configure_rules' work = list(cfg.get_rules()): a new list at f with the
\* items of the list get_rules returns, which nothing refers to afterwards
work_list(h, c, f) ==
    LET r == get_rules(h, c, f)
    IN  [heap |-> [r.heap EXCEPT ![f] = r.heap[r.ref]], ref |-> f]

\* a faulty editor that saves whatever the working list holds
save_refused_Never(rules) == FALSE

\* configure_rules, G: `if not work`, the test that refuses to save
save_refused(rules) == rules = <<>>

\* load_csv after main's repo = CsvVisitRepository(path): main's repo and
\* customers_repo afterwards
load_csv(path, customers_repo_, file) ==
    LET new    == CsvVisitRepository(path)
        loaded == load(new, file)
    IN  IF loaded \in {FileNotFoundError, ValueError}
        THEN [repo |-> new, customers_repo |-> customers_repo_]
        ELSE [repo |-> loaded,
              customers_repo |->
                  IF customers_repo_ = None
                  THEN InMemoryCustomerRepository(get_customers(loaded))
                  ELSE [customers_repo_ EXCEPT !.customers = get_customers(loaded)]]

\* main, options 3 and 5: the first customer whose id.lower() is the typed
\* id, lower-cased (<<>> when there is none)
find_customer(customers, val) ==
    LET all  == find_all(customers)
        hits == {i \in 1..Len(all) : lower(all[i].id) = lower(val)}
    IN  IF hits = {} THEN <<>>
        ELSE Some(all[CHOOSE i \in hits : \A j \in hits : i <= j])

---------------------------------------------------------------------------
(* report.py                                                               *)

\* a faulty sort key that compares the names as written
rank_before_CaseSensitive(x, y) ==
    \/ -x[2] < -y[2]
    \/ (x[2] = y[2] /\ LexLess(x[1].name, y[1].name))

\* the sort key of ranking_top_customers: (-x[1], x[0].name.lower())
rank_before(x, y) ==
    \/ -x[2] < -y[2]
    \/ (x[2] = y[2] /\ LexLess(lower(x[1].name), lower(y[1].name)))

\* a faulty ranking that leaves out the customers without visits, and one
\* that counts reservations
ranking_top_customers_Visitors(reservations, customers, months, as_of) ==
    LET start_dt == combine(months_ago(as_of, months), time_min)
        end_dt   == combine(as_of, time_max)
        all      == SelectSeq(find_all(customers), LAMBDA c :
                        count_visits(reservations, c.id, start_dt, end_dt, TRUE) > 0)
        rows     == [i \in 1..Len(all) |->
                       <<all[i], count_visits(reservations, all[i].id,
                                              start_dt, end_dt, TRUE)>>]
    IN  SortStable(rows, rank_before)

ranking_top_customers_Raw(reservations, customers, months, as_of) ==
    LET start_dt == combine(months_ago(as_of, months), time_min)
        end_dt   == combine(as_of, time_max)
        all      == find_all(customers)
        rows     == [i \in 1..Len(all) |->
                       <<all[i], count_visits(reservations, all[i].id,
                                              start_dt, end_dt, FALSE)>>]
    IN  SortStable(rows, rank_before)

\* ReportService.ranking_top_customers: rows of <<customer, count>>
ranking_top_customers(reservations, customers, months, as_of) ==
    LET start_date == months_ago(as_of, months)
        start_dt   == combine(start_date, time_min)
        end_dt     == combine(as_of, time_max)
        all        == find_all(customers)
        rows       == [i \in 1..Len(all) |->
                         <<all[i], count_visits(reservations, all[i].id,
                                                start_dt, end_dt, TRUE)>>]
    IN  SortStable(rows, rank_before)

---------------------------------------------------------------------------
(* Inputs: a reservations file, customers, reference dates, rules          *)

Id_C1 == <<67, 49>>      \* "C1"
Id_c2 == <<99, 50>>      \* "c2"
Id_C3 == <<67, 51>>      \* "C3"
Id_X9 == <<88, 57>>      \* "X9": no reservation names it

Name_ana == <<97, 110, 97>>     \* "ana"
Name_Bob == <<66, 111, 98>>     \* "Bob"
Name_Ana == <<65, 110, 97>>     \* "Ana"

ResId(n) == <<114, 48 + n>>     \* "r1", "r2", ...

IsoT(y, m, d, h, mi) == [fmt |-> "T", ymd |-> <<y, m, d>>, hm |-> <<h, mi>>]

IsoSpace(y, m, d, h, mi) == [fmt |-> "space", ymd |-> <<y, m, d>>, hm |-> <<h, mi>>]

IsoDate(y, m, d) == [fmt |-> "date", ymd |-> <<y, m, d>>, hm |-> <<>>]

NotIso == [fmt |-> "other", ymd |-> <<>>, hm |-> <<>>]

IntText(n) == [is_int |-> TRUE, value |-> n]

NotIntText == [is_int |-> FALSE, value |-> 0]

Row(rid, cid, name, datetime, party_size) ==
    [reservation_id |-> rid, customer_id |-> cid, name |-> name,
     datetime |-> datetime, party_size |-> party_size]

SampleRows ==
    << Row(ResId(1), Id_C1, Name_ana, IsoT(2024, 12, 30, 23, 59), IntText(2)),
       Row(ResId(2), Id_C1, Name_ana, IsoDate(2024, 12, 31), IntText(2)),
       Row(ResId(3), Id_c2, Name_Bob, IsoT(2025, 3, 1, 12, 0), IntText(4)),
       Row(ResId(4), Id_C1, Name_ana, IsoT(2025, 2, 10, 13, 0), IntText(1)),
       Row(ResId(5), Id_C1, Name_ana, IsoSpace(2025, 2, 10, 21, 0), IntText(3)),
       Row(ResId(6), Id_C1, Name_ana, IsoT(2025, 3, 31, 20, 0), IntText(2)),
       Row(ResId(7), Id_c2, Name_Bob, IsoDate(2025, 1, 5), IntText(2)),
       Row(ResId(8), Id_C1, Name_ana, IsoT(2025, 1, 5, 12, 0), IntText(2)),
       Row(ResId(9), Id_C3, Name_Ana, IsoT(2024, 11, 1, 9, 30), IntText(5)),
       Row(ResId(6), Id_C1, Name_ana, IsoT(2025, 3, 20, 20, 0), IntText(2)),
       Row(ResId(0), Id_C1, Name_ana, IsoT(2025, 3, 15, 19, 0), IntText(2)),
       Row(<<>>, Id_c2, Name_Bob, IsoT(2025, 3, 2, 12, 0), IntText(2)),
       Row(ResId(1) \o <<49>>, Id_c2, Name_Bob, NotIso, IntText(2)),
       Row(ResId(1) \o <<50>>, Id_c2, Name_Bob, IsoT(2025, 3, 3, 12, 0), IntText(0)),
       Row(ResId(1) \o <<51>>, Id_c2, Name_Bob, IsoT(2025, 3, 4, 12, 0), NotIntText) >>

CsvFile(exists, header_ok, rows) ==
    [exists |-> exists, header_ok |-> header_ok, rows |-> rows]

\* the files of the library runs: the sample file cut after any row
SampleFiles == {CsvFile(TRUE, TRUE, SubSeq(SampleRows, 1, k)) : k \in 0..Len(SampleRows)}

SampleRepo == load(CsvVisitRepository("sample"), CsvFile(TRUE, TRUE, SampleRows))

AsOfDates == {<<2025, 3, 31>>, <<2025, 5, 31>>, <<2025, 1, 5>>}

Stranger == Customer(Id_X9, Name_Ana)

\* the customers a caller classifies: those of the repository and one more
Classifiable(r) == {r.customers[i] : i \in 1..Len(r.customers)} \cup {Stranger}

Gold == LoyaltyTier("Gold", 3)

\* the rules a caller of Config passes and appends
RuleUniverse == { LoyaltyRule(5, 3, Gold), DefaultRules[2], LoyaltyRule(2, 6, Gold) }

\* the rules of the lists a caller builds a strategy from directly
StrategyRules ==
    { DefaultRules[1], DefaultRules[2], LoyaltyRule(2, 6, Gold), LoyaltyRule(1, 3, Gold) }

StrategyWindows == {3, 6}

RankingMonths == {1, 3, 6, 14}

RuleLists == SeqsUpTo(RuleUniverse, MaxRules)

---------------------------------------------------------------------------
(* State                                                                   *)

\* `last` when nothing has been observed
NoObs ==
    [op |-> "none", arg |-> <<>>, customer |-> None, as_of |-> <<>>,
     count |-> 0, tier |-> None, rules |-> <<>>, rows |-> <<>>]

NoWizard == [step |-> -1]

\* Config.get_instance() has built the Config; nothing else exists
InitConfig ==
    /\ heap = [sl \in Slots |-> IF sl = 1 THEN DefaultRules ELSE <<>>]
    /\ cfg = 1
    /\ got = 0
    /\ work = 0
    /\ eng = None
    /\ wiz = NoWizard
    /\ last = NoObs

\* a caller of the library that holds the loaded sample repository
Init ==
    /\ InitConfig
    /\ pc = "lib"
    /\ repo = SampleRepo
    /\ customers_repo = InMemoryCustomerRepository(get_customers(SampleRepo))

\* the next values of the variables that hold or refer to list objects
Objects(n) ==
    /\ heap' = n.heap
    /\ cfg' = n.cfg
    /\ got' = n.got
    /\ work' = n.work
    /\ eng' = n.eng

---------------------------------------------------------------------------
(* Operations on Config and on the lists it hands out                      *)

\* cfg.set_rules(rules), rules a list the caller built.  An engine built
\* earlier is from now on one built before the latest set_rules call.
SetRules(rules) ==
    LET f == FreshSlot(RefsOf(cfg, got, work, eng))
    IN  /\ Objects(Canon([heap EXCEPT ![f] = set_rules(rules)], f, got, work,
                         IF eng = None THEN None ELSE [eng EXCEPT !.fresh = FALSE]))
        /\ last' = [NoObs EXCEPT !.op = "set_rules", !.arg = rules]
        /\ UNCHANGED <<pc, wiz, repo, customers_repo>>

\* got = cfg.get_rules()
GetRules ==
    LET f == FreshSlot(RefsOf(cfg, got, work, eng))
        r == get_rules(heap, cfg, f)
    IN  /\ Objects(Canon(r.heap, cfg, r.ref, work, eng))
        /\ last' = [NoObs EXCEPT !.op = "get_rules", !.rules = r.heap[r.ref]]
        /\ UNCHANGED <<pc, wiz, repo, customers_repo>>

\* got.append(r)
GotAppend(r) ==
    /\ got # 0
    /\ Len(heap[got]) < MaxRules
    /\ heap' = [heap EXCEPT ![got] = Append(@, r)]
    /\ last' = [NoObs EXCEPT !.op = "mutate"]
    /\ UNCHANGED <<cfg, got, work, eng, pc, wiz, repo, customers_repo>>

\* got.pop(i - 1)
GotRemove(i) ==
    /\ got # 0
    /\ i \in 1..Len(heap[got])
    /\ heap' = [heap EXCEPT ![got] = RemoveAt(@, i)]
    /\ last' = [NoObs EXCEPT !.op = "mutate"]
    /\ UNCHANGED <<cfg, got, work, eng, pc, wiz, repo, customers_repo>>

\* got.reverse()
GotReorder ==
    /\ got # 0
    /\ Len(heap[got]) >= 2
    /\ heap' = [heap EXCEPT ![got] = [k \in 1..Len(@) |-> @[Len(@) + 1 - k]]]
    /\ last' = [NoObs EXCEPT !.op = "mutate"]
    /\ UNCHANGED <<cfg, got, work, eng, pc, wiz, repo, customers_repo>>

\* got[i - 1] = r
GotReplace(i, r) ==
    /\ got # 0
    /\ i \in 1..Len(heap[got])
    /\ heap' = [heap EXCEPT ![got] = [@ EXCEPT ![i] = r]]
    /\ last' = [NoObs EXCEPT !.op = "mutate"]
    /\ UNCHANGED <<cfg, got, work, eng, pc, wiz, repo, customers_repo>>

\* what classify returns and what it read, for the strategy st whose rule
\* list is held in h
Classified(h, st, customer, as_of) ==
    [NoObs EXCEPT
       !.op = "classify", !.customer = customer, !.as_of = as_of,
       !.rules = h[st.rules_desc],
       !.count = visits_in_window(st.window_months, st.unique_per_day,
                                  customer, as_of, get_reservations(repo)),
       !.tier = classify(h[st.rules_desc], st, customer, as_of,
                         get_reservations(repo))]

\* eng = ensure_engine(repo, customers_repo); eng.classify(customer, as_of):
\* what main does for one query; the engine is dropped afterwards
Query(customer, as_of) ==
    LET f == FreshSlot(RefsOf(cfg, got, work, eng))
        e == ensure_engine(heap, cfg, f)
    IN  /\ last' = Classified(e.heap, e.strategy, customer, as_of)
        /\ UNCHANGED <<heap, cfg, got, work, eng, pc, wiz, repo, customers_repo>>

\* the caller stores the list it got from get_rules and changed since
Next ==
    \/ got # 0 /\ SetRules(heap[got])
    \/ GetRules
    \/ \E r \in RuleUniverse : GotAppend(r)
    \/ \E i \in 1..MaxRules : GotRemove(i)
    \/ GotReorder
    \/ \E i \in 1..MaxRules, r \in RuleUniverse : GotReplace(i, r)
    \/ \E c \in Classifiable(repo), d \in AsOfDates : Query(c, d)

Spec == Init /\ [][Next]_vars

---------------------------------------------------------------------------
(* A long-lived engine beside a changing Config                            *)

\* eng = ensure_engine(repo, customers_repo), kept by the caller.  `fresh` is
\* a history field, not a field of the object: no set_rules call has been
\* made since the engine was built.
EnsureEngine ==
    LET f == FreshSlot(RefsOf(cfg, got, work, eng))
        e == ensure_engine(heap, cfg, f)
    IN  /\ Objects(Canon(e.heap, cfg, got, work,
                         [strategy |-> e.strategy, fresh |-> TRUE]))
        /\ last' = [NoObs EXCEPT !.op = "ensure_engine"]
        /\ UNCHANGED <<pc, wiz, repo, customers_repo>>

\* eng.classify(customer, as_of) on the engine the caller holds
EngineClassify(customer, as_of) ==
    /\ eng # None
    /\ repo # None
    /\ last' = Classified(heap, eng.strategy, customer, as_of)
    /\ repo' = after_get_reservations(repo)
    /\ customers_repo' = customers_repo
    /\ UNCHANGED <<heap, cfg, got, work, eng, pc, wiz>>

NextEngine ==
    \/ \E rules \in RuleLists : SetRules(rules)
    \/ EnsureEngine
    \/ \E c \in Classifiable(repo), d \in AsOfDates : EngineClassify(c, d)

SpecEngine == Init /\ [][NextEngine]_vars

---------------------------------------------------------------------------
(* The classifier and the report service as functions of their inputs      *)

\* a caller of the library that has built nothing yet
InitLibrary ==
    /\ InitConfig
    /\ pc = "lib"
    /\ repo = None
    /\ customers_repo = None

\* repo = CsvVisitRepository(path); repo.load();
\* customers = InMemoryCustomerRepository(repo.get_customers())
LoadFile(file) ==
    /\ repo = None
    /\ LET loaded == load(CsvVisitRepository("sample"), file)
       IN  /\ loaded \notin {FileNotFoundError, ValueError}
           /\ repo' = loaded
           /\ customers_repo' = InMemoryCustomerRepository(get_customers(loaded))
    /\ last' = [NoObs EXCEPT !.op = "load"]
    /\ UNCHANGED <<heap, cfg, got, work, eng, pc, wiz>>

\* eng = VisitsInWindowStrategy(rules_desc=rules, window_months=..., unique_per_day=...)
NewStrategy(rules, window_months, unique_per_day) ==
    /\ eng = None
    /\ LET f == FreshSlot(RefsOf(cfg, got, work, eng))
       IN  Objects(Canon([heap EXCEPT ![f] = rules], cfg, got, work,
                         [strategy |-> VisitsInWindowStrategy(f, window_months,
                                                              unique_per_day),
                          fresh |-> TRUE]))
    /\ last' = [NoObs EXCEPT !.op = "new_strategy"]
    /\ UNCHANGED <<pc, wiz, repo, customers_repo>>

NextClassify ==
    \/ \E file \in SampleFiles : LoadFile(file)
    \/ \E rules \in SeqsUpTo(StrategyRules, MaxRules), w \in StrategyWindows,
          u \in BOOLEAN : NewStrategy(rules, w, u)
    \/ \E c \in (IF repo = None THEN {} ELSE Classifiable(repo)), d \in AsOfDates :
          EngineClassify(c, d)

SpecClassify == InitLibrary /\ [][NextClassify]_vars

\* ReportService(repo, customers).ranking_top_customers(months, as_of)
Ranking(months, as_of) ==
    /\ repo # None
    /\ customers_repo # None
    /\ last' = [NoObs EXCEPT
                  !.op = "ranking", !.arg = <<months, as_of>>,
                  !.rows = ranking_top_customers(get_reservations(repo),
                                                 customers_repo, months, as_of)]
    /\ repo' = after_get_reservations(repo)
    /\ customers_repo' = after_find_all(customers_repo)
    /\ UNCHANGED <<heap, cfg, got, work, eng, pc, wiz>>

NextReport ==
    \/ \E file \in SampleFiles : LoadFile(file)
    \/ \E months \in RankingMonths, d \in AsOfDates : Ranking(months, d)

SpecReport == InitLibrary /\ [][NextReport]_vars

---------------------------------------------------------------------------
(* The counting queries of the repository                                  *)

\* the customer ids asked about: C1, c1, c2 and X9
VisitIds == {Id_C1, <<99, 49>>, Id_c2, Id_X9}

\* the ends of the ranges asked about: instants of reservations and others
RangeEnds ==
    { <<2024, 12, 30, 23, 59, 0, 0>>, <<2025, 1, 1, 0, 0, 0, 0>>,
      <<2025, 2, 10, 13, 0, 0, 0>>, <<2025, 2, 10, 21, 0, 0, 0>>,
      <<2025, 3, 31, 20, 0, 0, 0>> }

VisitDates == AsOfDates \cup {<<2025, 3, 10>>}

\* repo.count_visits(customer_id, start_dt, end_dt, unique_per_day=True) and
\* the same with unique_per_day=False
CountVisits(customer_id, start_dt, end_dt) ==
    /\ repo # None
    /\ last' = [NoObs EXCEPT
                  !.op = "count_visits", !.arg = <<customer_id, start_dt, end_dt>>,
                  !.rows = << count_visits(get_reservations(repo), customer_id,
                                           start_dt, end_dt, TRUE),
                              count_visits(get_reservations(repo), customer_id,
                                           start_dt, end_dt, FALSE) >>]
    /\ repo' = after_get_reservations(repo)
    /\ customers_repo' = customers_repo
    /\ UNCHANGED <<heap, cfg, got, work, eng, pc, wiz>>

\* repo.visits_by_month(customer_id, months, as_of)
VisitsByMonth(customer_id, months, as_of) ==
    /\ repo # None
    /\ last' = [NoObs EXCEPT
                  !.op = "visits_by_month", !.arg = <<customer_id, months, as_of>>,
                  !.rows = visits_by_month(get_reservations(repo), customer_id,
                                           months, as_of)]
    /\ repo' = after_get_reservations(repo)
    /\ customers_repo' = customers_repo
    /\ UNCHANGED <<heap, cfg, got, work, eng, pc, wiz>>

NextVisits ==
    \/ \E file \in SampleFiles : LoadFile(file)
    \/ \E id \in VisitIds, s \in RangeEnds, e \in RangeEnds : CountVisits(id, s, e)
    \/ \E id \in VisitIds, months \in RankingMonths, d \in VisitDates :
          VisitsByMonth(id, months, d)

SpecVisits == InitLibrary /\ [][NextVisits]_vars

---------------------------------------------------------------------------
(* months_ago as a function of its inputs                                  *)

MaxMonths == 25

\* the dates months are subtracted from: ends of months, a leap day, days
\* in and around century years
SampleDates ==
    { <<2025, 3, 31>>, <<2024, 3, 31>>, <<2025, 1, 31>>, <<2025, 5, 31>>,
      <<2024, 2, 29>>, <<2025, 12, 31>>, <<2025, 7, 15>>, <<2025, 1, 1>>,
      <<2000, 3, 30>>, <<2100, 3, 31>>, <<2101, 3, 29>>, <<2024, 12, 30>> }

\* a date and a number of months are given
InitDates ==
    /\ heap = [sl \in Slots |-> IF sl = 1 THEN DefaultRules ELSE <<>>]
    /\ cfg = 1
    /\ got = 0
    /\ work = 0
    /\ eng = None
    /\ wiz = NoWizard
    /\ pc = "lib"
    /\ repo = None
    /\ customers_repo = None
    /\ \E d \in SampleDates, n \in 0..MaxMonths :
          last = [NoObs EXCEPT !.op = "dates", !.arg = <<d, n>>]

\* r = months_ago(d, n); months_ago(r, 0)
MonthsAgo ==
    /\ last.op = "dates"
    /\ LET r == months_ago(last.arg[1], last.arg[2])
       IN  last' = [last EXCEPT !.op = "months_ago", !.rows = <<r, months_ago(r, 0)>>]
    /\ UNCHANGED <<heap, cfg, got, work, eng, pc, wiz, repo, customers_repo>>

NextDates == MonthsAgo

SpecDates == InitDates /\ [][NextDates]_vars


---------------------------------------------------------------------------
(* load() as a function of the rows of the file                            *)

MaxRows == 3

\* the rows of the files loaded: two well-formed ones, a row with the id of
\* the first and a datetime that cannot be parsed, a row with the id of the
\* second and party_size 0, a row with a party_size that is no integer, and
\* a row without reservation_id
BatchRows ==
    { Row(ResId(1), Id_C1, Name_ana, IsoT(2025, 3, 1, 12, 0), IntText(2)),
      Row(ResId(1), Id_C1, Name_ana, NotIso, IntText(2)),
      Row(ResId(2), Id_c2, Name_Bob, IsoDate(2025, 3, 2), IntText(1)),
      Row(ResId(2), Id_c2, Name_Bob, IsoSpace(2025, 3, 2, 21, 0), IntText(0)),
      Row(ResId(3), Id_C1, Name_ana, IsoT(2025, 3, 3, 12, 0), NotIntText),
      Row(<<>>, Id_C3, Name_Ana, IsoT(2025, 3, 4, 12, 0), IntText(2)) }

BatchFiles == {CsvFile(TRUE, TRUE, rows) : rows \in SeqsUpTo(BatchRows, MaxRows)}

\* repo = CsvVisitRepository(path); repo.load() on a file of the given rows
LoadBatch(file) ==
    /\ repo = None
    /\ LET loaded == load(CsvVisitRepository("batch"), file)
       IN  /\ repo' = loaded
           /\ customers_repo' = InMemoryCustomerRepository(get_customers(loaded))
    /\ last' = [NoObs EXCEPT !.op = "load", !.arg = file.rows]
    /\ UNCHANGED <<heap, cfg, got, work, eng, pc, wiz>>

NextLoad == \E file \in BatchFiles : LoadBatch(file)

SpecLoad == InitLibrary /\ [][NextLoad]_vars

---------------------------------------------------------------------------
(* load() called again and again on one CsvVisitRepository                 *)

\* the rows of the files loaded again: three well-formed ones with their
\* own reservation_id, a second row with the id of the first, and a row
\* without reservation_id
ReloadRows ==
    { Row(ResId(1), Id_C1, Name_ana, IsoT(2025, 3, 1, 12, 0), IntText(2)),
      Row(ResId(1), Id_c2, Name_Bob, IsoT(2025, 3, 5, 12, 0), IntText(4)),
      Row(ResId(2), Id_c2, Name_Bob, IsoDate(2025, 3, 2), IntText(1)),
      Row(ResId(3), Id_C3, Name_Ana, IsoT(2025, 3, 3, 12, 0), IntText(2)),
      Row(<<>>, Id_C3, Name_Ana, IsoT(2025, 3, 4, 12, 0), IntText(2)) }

\* files with the expected header, a file that does not exist and a file
\* whose header lacks a column
ReloadFiles ==
    {CsvFile(TRUE, TRUE, rows) : rows \in SeqsUpTo(ReloadRows, MaxRows)}
        \cup {CsvFile(FALSE, TRUE, <<>>), CsvFile(TRUE, FALSE, <<>>)}

\* repo = CsvVisitRepository(path)
NewRepository ==
    /\ repo = None
    /\ repo' = CsvVisitRepository("reload")
    /\ last' = [NoObs EXCEPT !.op = "new"]
    /\ UNCHANGED <<heap, cfg, got, work, eng, pc, wiz, customers_repo>>

\* repo.load() on the repository built before, the file at its path being
\* the given one by now.  An exception leaves the repository as it was:
\* both are raised before the first row is read.  The number of calls is
\* bounded through the length of the stored list.
LoadAgain(file) ==
    /\ repo # None
    /\ Len(repo.reservations) <= MaxRows
    /\ LET loaded == load(repo, file)
       IN  IF loaded \in {FileNotFoundError, ValueError}
           THEN /\ repo' = repo
                /\ last' = [NoObs EXCEPT !.op = "load raised", !.count = 0]
           ELSE /\ repo' = loaded
                /\ last' = [NoObs EXCEPT !.op = "load",
                                         !.count = Len(file.rows)]
    /\ UNCHANGED <<heap, cfg, got, work, eng, pc, wiz, customers_repo>>

NextReload == NewRepository \/ \E file \in ReloadFiles : LoadAgain(file)

SpecReload == InitLibrary /\ [][NextReload]_vars

---------------------------------------------------------------------------
(* The queries beside each other, on one engine and one repository         *)

\* eng.classify_all(as_of): the items of the dict, as <<id, tier>>
ClassifyAll(as_of) ==
    /\ eng # None
    /\ repo # None
    /\ customers_repo # None
    /\ LET all == find_all(customers_repo)
       IN  last' = [NoObs EXCEPT
                      !.op = "classify_all", !.as_of = as_of,
                      !.rules = heap[eng.strategy.rules_desc],
                      !.rows = [i \in 1..Len(all) |->
                                  <<all[i].id,
                                    classify(heap[eng.strategy.rules_desc], eng.strategy,
                                             all[i], as_of, get_reservations(repo))>>]]
    /\ repo' = after_get_reservations(repo)
    /\ customers_repo' = after_find_all(customers_repo)
    /\ UNCHANGED <<heap, cfg, got, work, eng, pc, wiz>>

NextQueries ==
    \/ EnsureEngine
    \/ \E c \in Classifiable(repo), d \in AsOfDates : EngineClassify(c, d)
    \/ \E d \in AsOfDates : ClassifyAll(d)
    \/ \E id \in VisitIds, s \in RangeEnds, e \in RangeEnds : CountVisits(id, s, e)
    \/ \E id \in VisitIds, months \in RankingMonths, d \in VisitDates :
          VisitsByMonth(id, months, d)
    \/ \E months \in RankingMonths, d \in AsOfDates : Ranking(months, d)

SpecQueries == Init /\ [][NextQueries]_vars

---------------------------------------------------------------------------
(* Rules of equal threshold                                                *)

\* the rules of the lists stored: two of the threshold and window of the
\* default VIP rule, with different tiers, among them
TieRules ==
    { DefaultRules[1], DefaultRules[2], LoyaltyRule(2, 3, Gold), LoyaltyRule(2, 6, Gold) }

\* eng = ensure_engine(repo, customers_repo); eng.classify(customer, as_of),
\* by the caller that made the latest set_rules call and remembers the list
\* it passed
QueryAfterStore(customer, as_of) ==
    /\ last.op \in {"set_rules", "classify"}
    /\ LET f == FreshSlot(RefsOf(cfg, got, work, eng))
           e == ensure_engine(heap, cfg, f)
       IN  last' = [Classified(e.heap, e.strategy, customer, as_of)
                       EXCEPT !.arg = last.arg]
    /\ UNCHANGED <<heap, cfg, got, work, eng, pc, wiz, repo, customers_repo>>

NextTies ==
    \/ \E rules \in SeqsUpTo(TieRules, MaxRules) : SetRules(rules)
    \/ \E c \in Classifiable(repo), d \in AsOfDates : QueryAfterStore(c, d)

SpecTies == Init /\ [][NextTies]_vars

---------------------------------------------------------------------------
(* main.py: the console program                                            *)

\* the files the user imports: the sample file and one without the columns
MainFiles == {CsvFile(TRUE, TRUE, SampleRows), CsvFile(TRUE, FALSE, <<>>)}

\* the ids the user types: c1, C2, C3 and z
TypedIds == {<<99, 49>>, <<67, 50>>, <<67, 51>>, <<122>>}

Keys == {Typed("back", 0, ""), Typed("cancel", 0, ""), Typed("cancel_q", 0, ""),
         Typed("enter", 0, "")}

\* the lines the user types at each prompt of the wizard
Lines(step) ==
    IF step = 0 THEN Keys \cup {Typed("int", n, "") : n \in {0, 3, 61}}
                          \cup {Typed("text", 0, "Gold")}
    ELSE IF step = 1 THEN Keys \cup {Typed("int", n, "") : n \in {0, 1, 1001}}
    ELSE IF step = 2 THEN Keys \cup {Typed("text", 0, "Gold")}
    ELSE IF step = 3 THEN Keys \cup {Typed("int", n, "") : n \in {0, 3, 100}}
    ELSE IF step = 4 THEN Keys \cup {Typed("int", n, "") : n \in 1..4}
                               \cup {Typed("text", 0, "G")}
    ELSE {}

\* main() before the first menu
InitMain ==
    /\ InitConfig
    /\ pc = "menu"
    /\ repo = None
    /\ customers_repo = None

Console(op) == [NoObs EXCEPT !.op = op]

\* option 1, a file chosen
MenuImport(file) ==
    /\ pc = "menu"
    /\ LET r == load_csv("sample", customers_repo, file)
       IN  /\ repo' = r.repo
           /\ customers_repo' = r.customers_repo
    /\ last' = Console("import")
    /\ UNCHANGED <<heap, cfg, got, work, eng, pc, wiz>>

\* option 2: configure_rules() up to its first prompt.  The editor is opened
\* as long as Config holds the default rules: one session builds any list
\* the editor can build, and the runs end with the session that changes it.
MenuConfigure ==
    /\ pc = "menu"
    /\ heap[cfg] = DefaultRules
    /\ LET f == FreshSlot(RefsOf(cfg, got, work, eng))
           r == work_list(heap, cfg, f)
       IN  Objects(Canon(r.heap, cfg, got, r.ref, eng))
    /\ pc' = "editor"
    /\ last' = Console("editor")
    /\ UNCHANGED <<wiz, repo, customers_repo>>

\* option 3, the id val typed, on the day today
MenuClassify(val, today) ==
    /\ pc = "menu"
    /\ IF repo = None \/ customers_repo = None
       THEN last' = Console("no_data")
       ELSE LET f == FreshSlot(RefsOf(cfg, got, work, eng))
                e == ensure_engine(heap, cfg, f)
                c == find_customer(customers_repo, val)
            IN  IF c = <<>> THEN last' = Console("not_found")
                ELSE last' = Classified(e.heap, e.strategy, c[1], today)
    /\ UNCHANGED <<heap, cfg, got, work, eng, pc, wiz, repo, customers_repo>>

\* option 4 on the day today: every customer with the visits counted and
\* the tier, in find_all() order
MenuList(today) ==
    /\ pc = "menu"
    /\ IF repo = None \/ customers_repo = None
       THEN last' = Console("no_data")
       ELSE LET f   == FreshSlot(RefsOf(cfg, got, work, eng))
                e   == ensure_engine(heap, cfg, f)
                all == find_all(customers_repo)
                one(c) == Classified(e.heap, e.strategy, c, today)
            IN  last' = [NoObs EXCEPT
                           !.op = "list", !.as_of = today,
                           !.rules = e.heap[e.strategy.rules_desc],
                           !.rows = [i \in 1..Len(all) |->
                                        <<all[i], one(all[i]).count, one(all[i]).tier>>]]
    /\ UNCHANGED <<heap, cfg, got, work, eng, pc, wiz, repo, customers_repo>>

\* editor, N: rule_wizard(None) up to its first prompt
EditorNew ==
    /\ pc = "editor"
    /\ Len(heap[work]) < MaxRules
    /\ pc' = "wizard"
    /\ wiz' = wizard_start(<<>>, 0)
    /\ last' = Console("editor")
    /\ UNCHANGED <<heap, cfg, got, work, eng, repo, customers_repo>>

\* editor, E with the index idx typed
EditorEdit(idx) ==
    /\ pc = "editor"
    /\ IF idx \in 1..Len(heap[work])
       THEN /\ pc' = "wizard"
            /\ wiz' = wizard_start(Some(heap[work][idx]), idx)
       ELSE UNCHANGED <<pc, wiz>>
    /\ last' = Console("editor")
    /\ UNCHANGED <<heap, cfg, got, work, eng, repo, customers_repo>>

\* editor, B with the index idx typed
EditorDelete(idx) ==
    /\ pc = "editor"
    /\ IF idx \in 1..Len(heap[work])
       THEN heap' = [heap EXCEPT ![work] = RemoveAt(@, idx)]
       ELSE UNCHANGED heap
    /\ last' = Console("editor")
    /\ UNCHANGED <<cfg, got, work, eng, pc, wiz, repo, customers_repo>>

\* editor, G
EditorSave ==
    /\ pc = "editor"
    /\ IF save_refused(heap[work])
       THEN /\ last' = Console("refused")
            /\ UNCHANGED <<heap, cfg, got, work, eng, pc>>
       ELSE /\ LET f == FreshSlot(RefsOf(cfg, got, work, eng))
               IN  Objects(Canon([heap EXCEPT ![f] = set_rules(heap[work])],
                                 f, got, 0, eng))
            /\ pc' = "menu"
            /\ last' = Console("saved")
    /\ UNCHANGED <<wiz, repo, customers_repo>>

\* editor, C; the observation keeps the working list that is discarded
EditorCancel ==
    /\ pc = "editor"
    /\ Objects(Canon(heap, cfg, got, 0, eng))
    /\ pc' = "menu"
    /\ last' = [Console("cancelled") EXCEPT !.rules = heap[work]]
    /\ UNCHANGED <<wiz, repo, customers_repo>>

\* the line s typed at the wizard's prompt; when the wizard returns, the
\* editor's handling of what it returns
WizardAnswer(s) ==
    /\ pc = "wizard"
    /\ LET r == wizard_step(wiz, s)
       IN  IF ~r.done
           THEN /\ wiz' = r.wiz
                /\ UNCHANGED <<heap, pc>>
           ELSE /\ wiz' = NoWizard
                /\ pc' = "editor"
                /\ IF r.result = <<>> THEN UNCHANGED heap
                   ELSE IF wiz.editing = 0
                   THEN heap' = [heap EXCEPT
                                   ![work] = editor_sort(Append(@, r.result[1]))]
                   ELSE heap' = [heap EXCEPT
                                   ![work] = editor_sort([@ EXCEPT
                                                 ![wiz.editing] = r.result[1]])]
    /\ last' = Console("wizard")
    /\ UNCHANGED <<cfg, got, work, eng, repo, customers_repo>>

NextMain ==
    \/ \E file \in MainFiles : MenuImport(file)
    \/ MenuConfigure
    \/ \E val \in TypedIds, d \in AsOfDates : MenuClassify(val, d)
    \/ \E d \in AsOfDates : MenuList(d)
    \/ EditorNew
    \/ \E idx \in 0..MaxRules : EditorEdit(idx)
    \/ \E idx \in 0..MaxRules : EditorDelete(idx)
    \/ EditorSave
    \/ EditorCancel
    \/ \E s \in Lines(wiz.step) : WizardAnswer(s)

SpecMain == InitMain /\ [][NextMain]_vars

---------------------------------------------------------------------------
(* Properties                                                              *)

SuperVIP == LoyaltyTier("Super VIP", 2)

VIP == LoyaltyTier("VIP", 1)

Descending(rules) ==
    \A i \in 1..(Len(rules) - 1) : rules[i].min_visits >= rules[i + 1].min_visits

StrictlyDescending(rules) ==
    \A i \in 1..(Len(rules) - 1) : rules[i].min_visits > rules[i + 1].min_visits

\* the rules of the list rs that a classifier of window w can apply to a
\* customer with `count` visits
Met(rs, w, count) ==
    {i \in 1..Len(rs) : rs[i].window_months = w /\ rs[i].min_visits <= count}

\* the customer's distinct visit days from the day `months` months before
\* as_of to as_of, both included
DistinctDays(reservations, customer_id, months, as_of) ==
    Cardinality({date_of(reservations[i].dt) : i \in
        {k \in 1..Len(reservations) :
            /\ reservations[k].customer_id = customer_id
            /\ LexLE(months_ago(as_of, months), date_of(reservations[k].dt))
            /\ LexLE(date_of(reservations[k].dt), as_of)}})

\* C1 as claimed: whatever engine classifies, and whenever it was built, the
\* classification is evaluated against the rule list Config holds since the
\* most recent set_rules call: the tier is the one that list gives.
C1_AnyEngineUsesLatestRules ==
    last.op = "classify" =>
        last.tier = rule_scan(heap[cfg], 1, eng.strategy.window_months, last.count)

\* C1 amended: an engine built by ensure_engine after the most recent
\* set_rules call (main builds one before every classification) evaluates
\* the rule list that call stored.
C1_EngineBuiltAfterUsesLatestRules ==
    (last.op = "classify" /\ eng.fresh) =>
        /\ last.rules = heap[cfg]
        /\ last.tier = rule_scan(heap[cfg], 1, eng.strategy.window_months, last.count)

\* C1 witness: an engine built after a set_rules call classifies, and the
\* default rules would have given another tier.
C1_Witness ==
    /\ last.op = "classify"
    /\ eng.fresh
    /\ heap[cfg] # DefaultRules
    /\ last.tier # rule_scan(DefaultRules, 1, eng.strategy.window_months, last.count)

\* C2: with the default rules, window_months = 3 and unique_per_day, a
\* customer with d distinct visit days in the trailing 3 months is Super VIP
\* when d >= 4, VIP when d is 2 or 3, Regular when d is 0 or 1.
C2_DefaultTiers ==
    ( /\ last.op = "classify"
      /\ last.rules = DefaultRules
      /\ eng.strategy.window_months = 3
      /\ eng.strategy.unique_per_day ) =>
        LET d == DistinctDays(repo.reservations, last.customer.id, 3, last.as_of)
        IN  last.tier = IF d >= 4 THEN SuperVIP
                        ELSE IF d >= 2 THEN VIP
                        ELSE LoyaltyTier("Regular", 0)

\* C2 witness: exactly 4 distinct days among more reservations than days.
C2_Witness ==
    /\ last.op = "classify"
    /\ last.rules = DefaultRules
    /\ eng.strategy.window_months = 3
    /\ eng.strategy.unique_per_day
    /\ DistinctDays(repo.reservations, last.customer.id, 3, last.as_of) = 4
    /\ count_visits(repo.reservations, last.customer.id,
                    combine(months_ago(last.as_of, 3), time_min),
                    combine(last.as_of, time_max), FALSE) > 4
    /\ last.tier = SuperVIP

\* C3: classify returns the tier of the first rule, in stored order, among
\* those with the classifier's window whose min_visits the count reaches
\* (Regular when there is none); rules of another window play no part.
C3_FirstRuleOfTheWindow ==
    last.op = "classify" =>
        LET rs == last.rules
            M  == Met(rs, eng.strategy.window_months, last.count)
        IN  IF M = {} THEN last.tier = Regular
            ELSE \E i \in M : (\A j \in M : i <= j) /\ last.tier = rs[i].resulting_tier

\* C3 witness: a rule of another window, its threshold met, stands before
\* the rule that decides, and names another tier.
C3_Witness ==
    /\ last.op = "classify"
    /\ \E i \in 1..Len(last.rules) :
          /\ last.rules[i].window_months # eng.strategy.window_months
          /\ last.rules[i].min_visits <= last.count
          /\ last.rules[i].resulting_tier # last.tier
          /\ \E j \in Met(last.rules, eng.strategy.window_months, last.count) : i < j

\* C4: for a rule list stored by set_rules and read back by get_rules,
\* classify returns the tier of a rule of highest min_visits among the rules
\* of the classifier's window whose min_visits the count reaches.
C4_HighestThresholdWins ==
    last.op = "classify" =>
        LET rs == last.rules
            M  == Met(rs, eng.strategy.window_months, last.count)
        IN  M # {} =>
              \E i \in M : /\ \A j \in M : rs[j].min_visits <= rs[i].min_visits
                           /\ last.tier = rs[i].resulting_tier

\* C4 witness: the list was stored by set_rules, two rules of different
\* thresholds are met, and the higher one decides.
C4_Witness ==
    /\ last.op = "classify"
    /\ eng.fresh
    /\ last.rules # DefaultRules
    /\ \E i, j \in Met(last.rules, eng.strategy.window_months, last.count) :
          /\ last.rules[i].min_visits > last.rules[j].min_visits
          /\ last.tier = last.rules[i].resulting_tier
          /\ last.tier # last.rules[j].resulting_tier

\* C5: for a rule list saved through the configuration editor and
\* Config.set_rules, classify returns the highest category the customer meets:
\* no rule of the classifier's window whose min_visits the count reaches has
\* a tier of priority strictly greater than the returned tier's.
C5_HighestCategoryMet ==
    last.op = "classify" =>
        \A i \in Met(last.rules, 3, last.count) :
            last.rules[i].resulting_tier.priority <= last.tier.priority

\* C6: with an empty rule list classify returns ("Regular", 0), whoever the
\* customer, whatever the date and the visit history.
C6_EmptyRulesGiveRegular ==
    (last.op = "classify" /\ last.rules = <<>>) =>
        last.tier = [name |-> "Regular", priority |-> 0]

\* C6 witness: no rules, and a customer with visits in the window.
C6_Witness ==
    /\ last.op = "classify"
    /\ last.rules = <<>>
    /\ last.count >= 2
    /\ last.tier = [name |-> "Regular", priority |-> 0]

\* C7: whatever rule list Config holds, the default one or one saved through
\* the configuration editor, a customer with zero visits in the window is
\* classified ("Regular", 0).
C7_ZeroVisitsGiveRegular ==
    /\ (last.op = "classify" /\ last.count = 0) => last.tier = Regular
    /\ last.op = "list" =>
          \A i \in 1..Len(last.rows) :
              last.rows[i][2] = 0 => last.rows[i][3] = Regular

\* C7 witness: the editor has saved a list with a rule of min_visits 1, the
\* lowest the wizard accepts, and a customer with no visit is classified.
C7_Witness ==
    /\ last.op = "classify"
    /\ last.count = 0
    /\ last.rules # DefaultRules
    /\ \E i \in 1..Len(last.rules) :
          last.rules[i].min_visits = 1 /\ last.rules[i].window_months = 3
    /\ last.tier = Regular

\* C8 as claimed: what set_rules stores and get_rules returns is strictly
\* descending by min_visits.
C8_StrictlyDescending ==
    /\ last.op = "set_rules" => StrictlyDescending(heap[cfg])
    /\ last.op = "get_rules" => StrictlyDescending(last.rules)

\* C8 amended: what set_rules stores and get_rules returns is descending by
\* min_visits, rules of equal min_visits being neighbours (r1.min_visits >=
\* r2.min_visits for consecutive r1, r2).
C8_Descending ==
    /\ last.op = "set_rules" => Descending(heap[cfg])
    /\ last.op = "get_rules" => Descending(last.rules)

\* C8 witness: set_rules was given a list that is not descending.
C8_Witness ==
    /\ last.op = "set_rules"
    /\ ~Descending(last.arg)
    /\ Descending(heap[cfg])

\* C9: changing the list get_rules returned (append, remove, reorder,
\* replace an element) leaves the list Config holds, which later get_rules
\* calls copy and classifiers evaluate, as it was; and what get_rules returns
\* and a classifier evaluates is always that list's contents.
C9_ReturnedListIsACopy ==
    /\ [][last'.op = "mutate" => heap'[cfg'] = heap[cfg]]_vars
    /\ [](last.op \in {"get_rules", "classify"} => last.rules = heap[cfg])

\* C9 witness: the returned list has been changed and differs from Config's.
C9_Witness ==
    /\ last.op = "mutate"
    /\ got # 0
    /\ heap[got] # heap[cfg]

\* C10: consecutive rows (c1, v1), (c2, v2) of a ranking have v1 > v2, or
\* v1 = v2 and c1.name.lower() <= c2.name.lower().
C10_RankingOrder ==
    last.op = "ranking" =>
        \A i \in 1..(Len(last.rows) - 1) :
            LET a == last.rows[i]
                b == last.rows[i + 1]
            IN  \/ a[2] > b[2]
                \/ (a[2] = b[2] /\ LexLE(lower(a[1].name), lower(b[1].name)))

\* C10 witness: two customers with equal counts whose names order one way
\* as written and the other way in lower case, after a row with a higher
\* count.
C10_Witness ==
    /\ last.op = "ranking"
    /\ \E i \in 1..(Len(last.rows) - 1) :
          /\ last.rows[i][2] = last.rows[i + 1][2]
          /\ LexLess(last.rows[i + 1][1].name, last.rows[i][1].name)
          /\ LexLess(lower(last.rows[i][1].name), lower(last.rows[i + 1][1].name))
    /\ \E i \in 1..(Len(last.rows) - 1) : last.rows[i][2] > last.rows[i + 1][2]

\* the number of the month (year, month), counted from year 0
MonthIndex(y, m) == y * 12 + m - 1

\* the sum of the counts of the items of a visits_by_month result
RECURSIVE SumCounts(_)
SumCounts(items) ==
    IF items = <<>> THEN 0 ELSE Head(items)[2] + SumCounts(Tail(items))

\* C11: visits_by_month(customer_id, months, as_of), months >= 1, returns
\* exactly `months` entries, each value >= 0, whose keys are the consecutive
\* calendar months in ascending order ending at as_of's month.
C11_MonthsCovered ==
    last.op = "visits_by_month" =>
        LET months == last.arg[2]
            as_of  == last.arg[3]
            out    == last.rows
        IN  /\ Len(out) = months
            /\ \A i \in 1..Len(out) :
                  /\ out[i][2] >= 0
                  /\ out[i][1][2] \in 1..12
                  /\ MonthIndex(out[i][1][1], out[i][1][2])
                        = MonthIndex(as_of[1], as_of[2]) - (months - i)

\* C11 witness: a range that crosses a year boundary, with a month without
\* visits and a month with visits.
C11_Witness ==
    /\ last.op = "visits_by_month"
    /\ Len(last.rows) = last.arg[2]
    /\ \E i \in 1..(Len(last.rows) - 1) : last.rows[i][1][1] < last.rows[i + 1][1][1]
    /\ \E i \in 1..Len(last.rows) : last.rows[i][2] = 0
    /\ \E i \in 1..Len(last.rows) : last.rows[i][2] > 0

\* the positions, in the stored reservation list, of the reservations of
\* the customer id dated from start_dt to end_dt, both included
Matching(customer_id, start_dt, end_dt) ==
    {i \in 1..Len(repo.reservations) :
        /\ repo.reservations[i].customer_id = customer_id
        /\ ~LexLess(repo.reservations[i].dt, start_dt)
        /\ ~LexLess(end_dt, repo.reservations[i].dt)}

\* C12: for the same customer id, range and reservations, count_visits with
\* unique_per_day=true is <= count_visits with unique_per_day=false, and
\* they are equal exactly when no two matching reservations fall on the
\* same calendar date.
C12_UniqueAtMostRaw ==
    last.op = "count_visits" =>
        LET M == Matching(last.arg[1], last.arg[2], last.arg[3])
        IN  /\ last.rows[1] <= last.rows[2]
            /\ (last.rows[1] = last.rows[2]) <=>
                  (\A i, j \in M :
                      i # j => date_of(repo.reservations[i].dt)
                                 # date_of(repo.reservations[j].dt))

\* C12 witness: two matching reservations on one day, so fewer days than
\* reservations.
C12_Witness ==
    /\ last.op = "count_visits"
    /\ 0 < last.rows[1]
    /\ last.rows[1] < last.rows[2]

\* the length of the month m of the year y
DaysIn(y, m) ==
    IF m \in {4, 6, 9, 11} THEN 30
    ELSE IF m # 2 THEN 31
    ELSE IF y % 400 = 0 \/ (y % 4 = 0 /\ y % 100 # 0) THEN 29 ELSE 28

WellFormed(row) ==
    /\ row.datetime.fmt \in {"T", "space", "date"}
    /\ row.party_size.is_int
    /\ row.party_size.value > 0

\* the reservation load() makes of a well-formed row
ReservationOf(row) ==
    Reservation(row.reservation_id, row.customer_id, parse_iso(row.datetime),
                row.party_size.value)

\* C15: load skips a malformed row and goes on, and a malformed row never
\* makes another row be dropped: every well-formed row whose non-empty
\* reservation_id differs from that of every earlier well-formed row is
\* stored.
C15_MalformedRowsDropNothingElse ==
    last.op = "load" =>
        \A k \in 1..Len(last.arg) :
            ( /\ WellFormed(last.arg[k])
              /\ last.arg[k].reservation_id # <<>>
              /\ \A j \in 1..(k - 1) :
                    WellFormed(last.arg[j]) =>
                        last.arg[j].reservation_id # last.arg[k].reservation_id )
            => \E i \in 1..Len(repo.reservations) :
                  repo.reservations[i] = ReservationOf(last.arg[k])

C17_CountsTheMatchingReservations ==
    last.op = "count_visits" =>
        LET id == last.arg[1]
            M  == Matching(id, last.arg[2], last.arg[3])
        IN  /\ last.rows[2] = Cardinality(M)
            /\ last.rows[1] = Cardinality({date_of(repo.reservations[i].dt) : i \in M})
            /\ last.rows[1] >= 0 /\ last.rows[2] >= 0
            /\ (\A i \in 1..Len(repo.reservations) :
                   repo.reservations[i].customer_id # id) => last.rows = <<0, 0>>
            /\ LexLess(last.arg[3], last.arg[2]) => last.rows = <<0, 0>>

\* C17 witness: the range starts at the instant of one reservation of the
\* customer and ends at the instant of another, and both are counted.
C17_Witness ==
    /\ last.op = "count_visits"
    /\ last.rows[2] = 2
    /\ \E i, j \in 1..Len(repo.reservations) :
          /\ repo.reservations[i].customer_id = last.arg[1]
          /\ repo.reservations[j].customer_id = last.arg[1]
          /\ repo.reservations[i].dt = last.arg[2]
          /\ repo.reservations[j].dt = last.arg[3]
          /\ i # j

\* 00:00 of the first day of the month (months - 1) months before as_of's
WindowStart(months, as_of) ==
    LET n == MonthIndex(as_of[1], as_of[2]) - (months - 1)
    IN  <<n \div 12, (n % 12) + 1, 1, 0, 0, 0, 0>>

\* C18: each value of visits_by_month for the key (y, m) is the raw number
\* of the customer's reservations dated in the month (y, m) and lying from
\* 00:00 of the first day of the month (months - 1) months before as_of's to
\* the end of the day as_of; reservations of as_of's month dated after as_of
\* are not counted, and the values add up to count_visits over that window
\* with unique_per_day=false.
C18_RawCountPerMonth ==
    last.op = "visits_by_month" =>
        LET id       == last.arg[1]
            start_dt == WindowStart(last.arg[2], last.arg[3])
            end_dt   == combine(last.arg[3], time_max)
            M        == Matching(id, start_dt, end_dt)
        IN  /\ \A i \in 1..Len(last.rows) :
                  last.rows[i][2] =
                      Cardinality({k \in M :
                          <<repo.reservations[k].dt[1], repo.reservations[k].dt[2]>>
                              = last.rows[i][1]})
            /\ SumCounts(last.rows)
                  = count_visits(repo.reservations, id, start_dt, end_dt, FALSE)

\* C18 witness: a month with two reservations of the customer on one day,
\* both counted, and a reservation of the customer in as_of's month after
\* as_of.
C18_Witness ==
    /\ last.op = "visits_by_month"
    /\ \E i \in 1..Len(last.rows) :
          /\ last.rows[i][2] = 2
          /\ \E j, k \in 1..Len(repo.reservations) :
                /\ j # k
                /\ repo.reservations[j].customer_id = last.arg[1]
                /\ repo.reservations[k].customer_id = last.arg[1]
                /\ date_of(repo.reservations[j].dt) = date_of(repo.reservations[k].dt)
                /\ <<repo.reservations[j].dt[1], repo.reservations[j].dt[2]>>
                      = last.rows[i][1]
    /\ \E k \in 1..Len(repo.reservations) :
          /\ repo.reservations[k].customer_id = last.arg[1]
          /\ <<repo.reservations[k].dt[1], repo.reservations[k].dt[2]>>
                = <<last.arg[3][1], last.arg[3][2]>>
          /\ LexLess(last.arg[3], date_of(repo.reservations[k].dt))
    /\ last.rows[Len(last.rows)][2] = 0

\* the rules of the list with the given min_visits, in the list's order
OfThreshold(rules, v) == SelectSeq(rules, LAMBDA r : r.min_visits = v)

\* C19: set_rules sorts stably: rules of equal min_visits are in get_rules()
\* in the relative order they had in the list passed to set_rules, so that
\* among the rules of the classifier's window with the highest threshold
\* the count reaches, the one given first in that list decides.
C19_TiesKeepInputOrder ==
    last.op \in {"set_rules", "classify"} =>
        /\ \A v \in {last.arg[i].min_visits : i \in 1..Len(last.arg)} :
              OfThreshold(heap[cfg], v) = OfThreshold(last.arg, v)
        /\ last.op = "classify" =>
              LET M   == Met(last.arg, 3, last.count)
                  top == {i \in M : \A j \in M :
                             last.arg[j].min_visits <= last.arg[i].min_visits}
              IN  M # {} =>
                    last.tier = last.arg[CHOOSE i \in top : \A j \in top : i <= j]
                                    .resulting_tier

\* C19 witness: two rules of the window with the same threshold and
\* different tiers were passed, both are met, and the first one decides.
C19_Witness ==
    /\ last.op = "classify"
    /\ Len(last.arg) >= 2
    /\ last.arg[1].min_visits = last.arg[2].min_visits
    /\ last.arg[1].window_months = 3 /\ last.arg[2].window_months = 3
    /\ last.arg[1].resulting_tier # last.arg[2].resulting_tier
    /\ last.arg[1].min_visits <= last.count
    /\ last.tier = last.arg[1].resulting_tier

\* C20: ranking_top_customers(months, as_of) has exactly one entry for each
\* customer find_all returns, those without visits included, and the count
\* of an entry is the number of distinct days the customer visited from
\* months_ago(as_of, months) at 00:00 to the end of the day as_of
\* (count_visits with unique_per_day=true), never the number of reservations.
C20_OneRowPerCustomer ==
    last.op = "ranking" =>
        LET all  == find_all(customers_repo)
            rows == last.rows
        IN  /\ Len(rows) = Len(all)
            /\ \A k \in 1..Len(all) :
                  Cardinality({i \in 1..Len(rows) : rows[i][1] = all[k]}) = 1
            /\ \A i \in 1..Len(rows) :
                  rows[i][2] = DistinctDays(repo.reservations, rows[i][1].id,
                                            last.arg[1], last.arg[2])

\* C20 witness: a customer without visits in the window is in the ranking,
\* and so is one with more reservations than visit days in it.
C20_Witness ==
    /\ last.op = "ranking"
    /\ \E i \in 1..Len(last.rows) : last.rows[i][2] = 0
    /\ \E i \in 1..Len(last.rows) :
          /\ last.rows[i][2] > 0
          /\ last.rows[i][2] <
                count_visits(repo.reservations, last.rows[i][1].id,
                             combine(months_ago(last.arg[2], last.arg[1]), time_min),
                             combine(last.arg[2], time_max), FALSE)

\* C21: after any sequence of load() calls on one CsvVisitRepository no two
\* stored reservations have the same reservation id, and no stored
\* reservation has an empty id.
C21_StoredIdsAreUnique ==
    repo # None =>
        /\ \A i, j \in 1..Len(repo.reservations) :
               repo.reservations[i].id = repo.reservations[j].id => i = j
        /\ \A i \in 1..Len(repo.reservations) : repo.reservations[i].id # <<>>

\* C22: in every state the main program reaches, the rule list Config holds
\* is not empty: it starts with the two default rules and the editor
\* refuses to save an empty working list, whatever was created, edited and
\* deleted before.
C22_ConfigRulesNeverEmpty == Len(heap[cfg]) >= 1

\* the editor has refused to save a working list emptied by deletions
C22_Witness ==
    /\ last.op = "refused"
    /\ pc = "editor"
    /\ heap[work] = <<>>
    /\ heap[cfg] = DefaultRules

\* C23: the editor works on a copy of its own.  Whatever is created, edited
\* or deleted, the rules Config holds (their number, their order, every
\* field) stay as they were when the editor was opened until G saves a
\* non-empty list: every step of the program other than a successful save,
\* Cancel included, leaves them as they are.
C23_ConfigChangesOnlyOnSave ==
    [][last'.op # "saved" => heap'[cfg'] = heap[cfg]]_vars

\* Cancel has discarded a working list that differed from the rules of
\* Config
C23_Witness ==
    /\ last.op = "cancelled"
    /\ pc = "menu"
    /\ last.rules # heap[cfg]
    /\ heap[cfg] = DefaultRules

\* C24: in every state the main program reaches, every rule Config holds
\* has min_visits >= 1 and window_months >= 1, whatever was typed at the
\* prompts of the wizard (values, ENTER to keep a prefill, back, cancel,
\* jumps from the summary to a field).
C24_ConfigRulesAreValid ==
    \A i \in 1..Len(heap[cfg]) :
        /\ heap[cfg][i].min_visits >= 1
        /\ heap[cfg][i].window_months >= 1

\* a list was saved with a rule typed in the wizard whose minimum of visits
\* is the smallest value the wizard takes
C24_Witness ==
    /\ last.op = "saved"
    /\ \E i \in 1..Len(heap[cfg]) :
           /\ heap[cfg][i].min_visits = 1
           /\ heap[cfg][i].resulting_tier.name = "Gold"

\* the order the editor establishes after every New and Edit: resulting
\* tier priority descending, then min_visits descending
PriorityOrdered(rules) ==
    \A i \in 1..(Len(rules) - 1) :
        LexLE(<<rules[i + 1].resulting_tier.priority, rules[i + 1].min_visits>>,
              <<rules[i].resulting_tier.priority, rules[i].min_visits>>)

\* C25: after G in the editor the rules stored in Config, which print_rules
\* shows, are ordered by priority: resulting tier priority descending, then
\* min_visits descending.
C25_SavedRulesInPriorityOrder ==
    last.op = "saved" => PriorityOrdered(heap[cfg])

\* C26: whenever the menu loop has both a visit repository and a customer
\* repository, the customer repository holds exactly the customers of the
\* current visit repository, after successful and failed imports alike.
C26_CustomersOfCurrentRepository ==
    (repo # None /\ customers_repo # None) =>
        find_all(customers_repo) = get_customers(repo)

=============================================================================
